---- MODULE Spec2Model ----
(***************************************************************************)
(* A model of src/app.py: the "Better Built Society" questionnaire.        *)
(*                                                                         *)
(*   - text is a sequence of one-character strings, so that lower(),       *)
(*     strip(), substring tests, the scale regular expression and float()  *)
(*     parsing are computed on the characters;                             *)
(*   - a spreadsheet cell or Python value is a record "Cell": a number     *)
(*     (an exact rational n/d), NaN (an empty cell), None, or text;        *)
(*   - floating point arithmetic is exact rational arithmetic with NaN     *)
(*     propagation and Python's comparison rules for NaN (every comparison *)
(*     with NaN is false), which is what min()/max()/<= see in the source; *)
(*   - the wizard is a state machine with one action per script run, the   *)
(*     run being decided by session_state.step and the button clicked.     *)
(***************************************************************************)
EXTENDS Integers, Sequences, FiniteSets, TLC

VARIABLES
    indata_df,      \* sheet "Indata": sequence of rows
    calc_df,        \* sheet "Beräkningar": sequence of rule rows
    step,           \* st.session_state.step
    answers,        \* st.session_state.answers: (Parameter, Delparameter) -> answer
    scores,         \* result of calculate_scores in the latest script run
    total_score,    \* total score of the latest script run
    pdf,            \* parameter lines of the exported report of the latest run
    shown,          \* history: question steps run since the last reset
    epoch,          \* history: number of resets so far
    lastEvent,      \* history: the button that triggered the latest script run
    nv_args,        \* arguments of a call of normalize_value
    nv_ret,         \* its return value
    ii_args,        \* arguments of a call of infer_input_type
    ii_ret          \* its return value

vars == <<indata_df, calc_df, step, answers, scores, total_score, pdf, shown,
          epoch, lastEvent, nv_args, nv_ret, ii_args, ii_ret>>

wizardVars == <<indata_df, calc_df, step, answers, scores, total_score, pdf,
                shown, epoch, lastEvent>>
nvVars == <<nv_args, nv_ret>>
iiVars == <<ii_args, ii_ret>>

-----------------------------------------------------------------------------
(* Bounds of the model *)

\* largest integer used as raw value, reference value and optimal value
MaxVal == 3
\* largest bound that a scale label may name
MaxScale == 7
\* largest number of rule rows in a "Beräkningar" table
MaxRows == 2
\* largest number of resets ("Starta om") in one behaviour
MaxResets == 1

-----------------------------------------------------------------------------
(* Characters and text *)

\* The characters of the model in code point order; "u00e4" stands for a
\* with diaeresis, "u00e5" for a with ring, "u2013" for the en dash.
Chars ==
    <<" ", "(", ")", "-", ".", "/",
      "0", "1", "2", "3", "4", "5", "6", "7", "8", "9",
      "A", "B", "C", "D", "E", "F", "G", "H", "I", "J", "K", "L", "M",
      "N", "O", "P", "Q", "R", "S", "T", "U", "V", "W", "X", "Y", "Z",
      "a", "b", "c", "d", "e", "f", "g", "h", "i", "j", "k", "l", "m",
      "n", "o", "p", "q", "r", "s", "t", "u", "v", "w", "x", "y", "z",
      "u00e4", "u00e5", "u2013">>

CharSet == {Chars[i] : i \in 1..Len(Chars)}
\* ord(c)
OrdOf == [c \in CharSet |-> CHOOSE i \in 1..Len(Chars) : Chars[i] = c]
Ord(c) == OrdOf[c]

DigitSet == {"0", "1", "2", "3", "4", "5", "6", "7", "8", "9"}
IsDigit(c) == c \in DigitSet
DigitVal(c) == Ord(c) - Ord("0")
IsSpace(c) == c = " "

\* str.lower()
LowerOf ==
    [c \in CharSet |->
        IF OrdOf[c] >= OrdOf["A"] /\ OrdOf[c] <= OrdOf["Z"] THEN Chars[OrdOf[c] + 26] ELSE c]
Lower(s) == [i \in 1..Len(s) |-> LowerOf[s[i]]]

\* str.strip()
RECURSIVE LStrip(_)
LStrip(s) == IF s # <<>> /\ IsSpace(Head(s)) THEN LStrip(Tail(s)) ELSE s
RECURSIVE RStrip(_)
RStrip(s) ==
    IF s # <<>> /\ IsSpace(s[Len(s)]) THEN RStrip(SubSeq(s, 1, Len(s) - 1)) ELSE s
Strip(s) == RStrip(LStrip(s))

\* sub in s
StartsAt(s, i, sub) ==
    /\ i + Len(sub) - 1 <= Len(s)
    /\ \A j \in 1..Len(sub) : s[i + j - 1] = sub[j]
Contains(s, sub) == \E i \in 1..(Len(s) + 1) : StartsAt(s, i, sub)

\* a < b for str: lexicographic by code point
RECURSIVE StrLess(_, _)
StrLess(a, b) ==
    IF b = <<>> THEN FALSE
    ELSE IF a = <<>> THEN TRUE
    ELSE IF Head(a) # Head(b) THEN Ord(Head(a)) < Ord(Head(b))
    ELSE StrLess(Tail(a), Tail(b))

\* int() of a string of digits
RECURSIVE DigitsToInt(_)
DigitsToInt(s) ==
    IF s = <<>> THEN 0 ELSE 10 * DigitsToInt(SubSeq(s, 1, Len(s) - 1)) + DigitVal(s[Len(s)])

AllDigits(s) == s # <<>> /\ \A i \in 1..Len(s) : IsDigit(s[i])

\* str(n) of a natural number
RECURSIVE IntToStr(_)
IntToStr(n) ==
    IF n < 10 THEN <<Chars[Ord("0") + n]>>
    ELSE IntToStr(n \div 10) \o <<Chars[Ord("0") + (n % 10)]>>

RECURSIVE Pow10(_)
Pow10(k) == IF k = 0 THEN 1 ELSE 10 * Pow10(k - 1)

-----------------------------------------------------------------------------
(* Cells: numbers, NaN, None, text *)

RECURSIVE GCD(_, _)
GCD(a, b) == IF b = 0 THEN a ELSE GCD(b, a % b)
AbsInt(a) == IF a < 0 THEN -a ELSE a

\* the number n/d (d # 0), in lowest terms with a positive denominator
NumOver(sn, sd, g) == [k |-> "num", n |-> sn \div g, d |-> sd \div g, s |-> <<>>]
NumReduced(sn, sd) == NumOver(sn, sd, GCD(AbsInt(sn), sd))
Num(n, d) == NumReduced(IF d < 0 THEN -n ELSE n, AbsInt(d))
NaN == [k |-> "nan", n |-> 0, d |-> 1, s |-> <<>>]
None == [k |-> "none", n |-> 0, d |-> 1, s |-> <<>>]
Str(s) == [k |-> "str", n |-> 0, d |-> 1, s |-> s]
\* an exception leaving the function
Raise == [k |-> "raise", n |-> 0, d |-> 1, s |-> <<>>]

IsNum(x) == x.k = "num"
\* pd.isna / pd.notna
isna(x) == x.k \in {"nan", "none"}
\* isinstance(x, str)
isstr(x) == x.k = "str"

\* float(text): [-] digits [. digits] between optional blanks. The texts of
\* the model hold no exponent and no "inf", "nan" or "+" spelling.
ParseDecimal(ip, fp) ==
    IF AllDigits(ip \o fp) THEN Num(DigitsToInt(ip \o fp), Pow10(Len(fp))) ELSE Raise
ParseAtDot(u, p) == ParseDecimal(SubSeq(u, 1, p - 1), SubSeq(u, p + 1, Len(u)))
ParseDots(u, dots) ==
    IF dots = {} THEN IF AllDigits(u) THEN Num(DigitsToInt(u), 1) ELSE Raise
    ELSE IF Cardinality(dots) = 1 THEN ParseAtDot(u, CHOOSE i \in dots : TRUE)
    ELSE Raise
ParseUnsigned(u) == ParseDots(u, {i \in 1..Len(u) : u[i] = "."})
Negate(x) == IF IsNum(x) THEN [x EXCEPT !.n = -x.n] ELSE x
ParseSigned(s) ==
    IF s # <<>> /\ Head(s) = "-" THEN Negate(ParseUnsigned(Tail(s))) ELSE ParseUnsigned(s)
ParseFloat(s) == ParseSigned(Strip(s))

\* float(x): a number, NaN, or Raise (TypeError for None, ValueError for text)
PyFloat(x) ==
    CASE x.k = "num" -> x
      [] x.k = "nan" -> NaN
      [] x.k = "str" -> ParseFloat(x.s)
      [] OTHER -> Raise

\* Arithmetic on floats (numbers and NaN)
FAdd(a, b) == IF IsNum(a) /\ IsNum(b) THEN Num(a.n * b.d + b.n * a.d, a.d * b.d) ELSE NaN
FSub(a, b) == IF IsNum(a) /\ IsNum(b) THEN Num(a.n * b.d - b.n * a.d, a.d * b.d) ELSE NaN
FMul(a, b) == IF IsNum(a) /\ IsNum(b) THEN Num(a.n * b.n, a.d * b.d) ELSE NaN
\* used only where the source has excluded a zero divisor
FDiv(a, b) == IF IsNum(a) /\ IsNum(b) /\ b.n # 0 THEN Num(a.n * b.d, a.d * b.n) ELSE NaN
FAbs(a) == IF IsNum(a) THEN [a EXCEPT !.n = AbsInt(a.n)] ELSE NaN
\* comparisons: false when an operand is NaN
FLt(a, b) == IsNum(a) /\ IsNum(b) /\ a.n * b.d < b.n * a.d
FLe(a, b) == IsNum(a) /\ IsNum(b) /\ a.n * b.d <= b.n * a.d
FEq(a, b) == IsNum(a) /\ IsNum(b) /\ a.n * b.d = b.n * a.d
\* Python's min(a, b) and max(a, b): the first argument unless the second is
\* strictly smaller (larger)
PyMin(a, b) == IF FLt(b, a) THEN b ELSE a
PyMax(a, b) == IF FLt(a, b) THEN b ELSE a

Zero == [k |-> "num", n |-> 0, d |-> 1, s |-> <<>>]
One == [k |-> "num", n |-> 1, d |-> 1, s |-> <<>>]
Hundred == [k |-> "num", n |-> 100, d |-> 1, s |-> <<>>]

\* round(x, 3): the nearest multiple of 1/1000, a tie to the even one (f is the
\* floor of 1000 x and r/d the rest); NaN stays NaN
NearestEven(f, r, d) ==
    IF 2 * r < d THEN f
    ELSE IF 2 * r > d THEN f + 1
    ELSE IF f % 2 = 0 THEN f ELSE f + 1
Round3(x) ==
    IF ~IsNum(x) THEN NaN
    ELSE Num(NearestEven((x.n * 1000) \div x.d, (x.n * 1000) % x.d, x.d), 1000)

-----------------------------------------------------------------------------
(* normalize_value *)

\* the text "opt", "max", "min"
sOpt == <<"o", "p", "t">>
sMax == <<"m", "a", "x">>
sMin == <<"m", "i", "n">>
\* str(x) of a cell: text as is, an empty cell prints as "nan"
PyStr(x) == IF isstr(x) THEN x.s ELSE <<"n", "a", "n">>

\* lines 113-117 and 131-135: a reference given as text is converted;
\* Raise when it is no number
CoerceText(x) == IF isstr(x) THEN PyFloat(x) ELSE x

\* line 144 without the upper limit
ClampLowerOnly(val) == PyMax(Zero, val)

\* line 144
Clamp(val) == PyMax(Zero, PyMin(One, val))

\* lines 136-139
OptValue(rv, opt, denom) ==
    IF FEq(denom, Zero) THEN None ELSE FSub(One, FDiv(FAbs(FSub(rv, opt)), denom))

\* lines 131-139, opt being optimal after its conversion
NormalizeOpt(rv, max_ref, opt) ==
    IF opt = Raise THEN None
    ELSE IF max_ref = None THEN None
    ELSE OptValue(rv, opt, FSub(max_ref, opt))

\* lines 120-141: val before it is clamped, or None for an early return
NormalizeLogic(rv, logic, max_ref, optimal) ==
    IF logic = sMax THEN
        IF FEq(max_ref, Zero) THEN None ELSE FDiv(rv, max_ref)
    ELSE IF logic = sMin THEN
        IF FEq(max_ref, Zero) THEN None ELSE FSub(One, FDiv(rv, max_ref))
    ELSE IF logic = sOpt THEN
        IF isna(optimal) THEN None ELSE NormalizeOpt(rv, max_ref, CoerceText(optimal))
    ELSE None

\* lines 143-145
ClampValue(val) == IF val = None THEN None ELSE Clamp(val)

\* lines 113-145, max_ref being max_ref after line 115
NormalizeCoerced(rv, logic, max_ref, optimal) ==
    IF max_ref = Raise THEN None
    ELSE ClampValue(NormalizeLogic(rv, Strip(Lower(PyStr(logic))), max_ref, optimal))

\* lines 110-145, rv being float(raw)
NormalizeFloat(rv, logic, max_ref, optimal) ==
    IF rv = Raise THEN None
    ELSE IF isna(max_ref) /\ ~isstr(logic) THEN Raise
    ELSE IF isna(max_ref) /\ Lower(logic.s) # sOpt THEN None
    ELSE NormalizeCoerced(rv, logic, CoerceText(max_ref), optimal)

\* lines 103-145: a number in [0,1], None, or Raise (logic.lower() on a cell
\* that is no text)
normalize_value(raw, logic, max_ref, optimal) ==
    NormalizeFloat(PyFloat(raw), logic, max_ref, optimal)

-----------------------------------------------------------------------------
(* parse_scale and infer_input_type *)

sSkala == <<"s", "k", "a", "l", "a">>
sFritext == <<"f", "r", "i", "t", "e", "x", "t">>
sText == <<"t", "e", "x", "t">>
sKommentar == <<"k", "o", "m", "m", "e", "n", "t", "a", "r">>
sKategori == <<"k", "a", "t", "e", "g", "o", "r", "i">>
sKollektivtrafik ==
    <<"k", "o", "l", "l", "e", "k", "t", "i", "v", "t", "r", "a", "f", "i", "k">>
sTrafiktyp == <<"t", "r", "a", "f", "i", "k", "t", "y", "p">>
sProcent == <<"p", "r", "o", "c", "e", "n", "t">>
sPoang == <<"p", "o", "u00e4", "n", "g">>

\* the first position from i on that holds no blank (\s*)
RECURSIVE SkipSpaces(_, _)
SkipSpaces(s, i) == IF i <= Len(s) /\ IsSpace(s[i]) THEN SkipSpaces(s, i + 1) ELSE i
\* the first position from i on that holds no digit ([0-9]*, greedy)
RECURSIVE SkipDigits(_, _)
SkipDigits(s, i) == IF i <= Len(s) /\ IsDigit(s[i]) THEN SkipDigits(s, i + 1) ELSE i

\* line 50: the pattern skala\s*([0-9]+)\s*[-u2013]\s*([0-9]+) matched at
\* position i, piece by piece: the two groups, or <<>> when it does not match
\* there. Each greedy run is followed by a character class disjoint from it,
\* so no shorter run can match. a..b-1 is the first group, c the separator,
\* e..f-1 the second group.
MatchGroups(s, a, b, e, f) ==
    IF f > e THEN <<SubSeq(s, a, b - 1), SubSeq(s, e, f - 1)>> ELSE <<>>
MatchSeparator(s, a, b, c) ==
    IF c <= Len(s) /\ s[c] \in {"-", "u2013"}
    THEN MatchGroups(s, a, b, SkipSpaces(s, c + 1), SkipDigits(s, SkipSpaces(s, c + 1)))
    ELSE <<>>
MatchFirstGroup(s, a, b) == IF b > a THEN MatchSeparator(s, a, b, SkipSpaces(s, b)) ELSE <<>>
MatchAfterWord(s, a) == MatchFirstGroup(s, a, SkipDigits(s, a))
MatchScaleAt(s, i) ==
    IF StartsAt(s, i, sSkala) THEN MatchAfterWord(s, SkipSpaces(s, i + 5)) ELSE <<>>

\* re.search: the match at the leftmost position that has one
LeftmostMatch(s, hits) ==
    IF hits = {} THEN <<>> ELSE MatchScaleAt(s, CHOOSE i \in hits : \A j \in hits : i <= j)
ReSearchScale(s) == LeftmostMatch(s, {i \in 1..Len(s) : MatchScaleAt(s, i) # <<>>})

\* lines 51-56
ScaleGroups(m) == IF m = <<>> THEN <<>> ELSE <<DigitsToInt(m[1]), DigitsToInt(m[2])>>

\* lines 45-56: <<lo, hi>>, or <<>> for None
parse_scale(enhet) ==
    IF ~isstr(enhet) THEN <<>> ELSE ScaleGroups(ReSearchScale(Strip(Lower(enhet.s))))

\* list(range(lo, hi + 1))
Range(lo, hi) == [i \in 1..(IF hi >= lo THEN hi - lo + 1 ELSE 0) |-> lo + i - 1]

NumberSpec == [type |-> "number", min |-> 0, step |-> 1]
PercentSpec == [type |-> "number", min |-> 0, max |-> 100, step |-> 1]

\* lines 71-76
ScaleSpec(lo, hi) ==
    IF hi - lo <= 5 THEN [type |-> "radio", options |-> Range(lo, hi)]
    ELSE [type |-> "slider", min |-> lo, max |-> hi, step |-> 1]

\* lines 82-101; "dB", "km/h", "index" and the rest give the default
UnitSpec(s) ==
    IF Contains(s, sProcent) THEN PercentSpec
    ELSE IF Contains(s, <<"m", "e", "t", "e", "r">>) THEN NumberSpec
    ELSE IF Contains(s, <<"m", "i", "n", "u", "t", "e", "r">>) THEN NumberSpec
    ELSE IF Contains(s, <<"a", "n", "t", "a", "l">>) THEN NumberSpec
    ELSE IF Contains(s, sPoang) THEN PercentSpec
    ELSE NumberSpec

\* lines 69-101; the labels of the select are Spar, BRT, Buss
InferScaleOrUnit(scale, s, parameter, delparam) ==
    IF scale # <<>> THEN ScaleSpec(scale[1], scale[2])
    ELSE IF Contains(s, sKategori) /\ Lower(parameter) = sKollektivtrafik
            /\ Lower(delparam) = sTrafiktyp
        THEN [type |-> "select", options |-> <<<<"Spar", 3>>, <<"BRT", 2>>, <<"Buss", 1>>>>]
    ELSE UnitSpec(s)

\* lines 63-101, s being enhet.lower().strip()
InferFromText(s, enhet, parameter, delparam) ==
    IF Contains(s, sFritext) \/ s = sText \/ sKommentar = s THEN [type |-> "text"]
    ELSE InferScaleOrUnit(parse_scale(enhet), s, parameter, delparam)

\* lines 58-101
infer_input_type(enhet, parameter, delparam) ==
    IF ~isstr(enhet) THEN NumberSpec
    ELSE InferFromText(Strip(Lower(enhet.s)), enhet, parameter, delparam)

-----------------------------------------------------------------------------
(* detect_weight_scale, calculate_scores, the total score, get_label *)

\* pd.to_numeric(x, errors="coerce"): a number, or NaN
NumberOrNaN(f) == IF IsNum(f) THEN f ELSE NaN
ToNumeric(x) == NumberOrNaN(IF x.k \in {"num", "str"} THEN PyFloat(x) ELSE NaN)

\* Series.max(): the largest number, NaN entries skipped; NaN when none is left
MaxOf(nums) == IF nums = {} THEN NaN ELSE CHOOSE m \in nums : \A x \in nums : FLe(x, m)
SeriesMax(col) == MaxOf({ToNumeric(col[i]) : i \in 1..Len(col)} \ {NaN})

\* lines 147-156 with the smallest weight in place of the largest
MinOf(nums) == IF nums = {} THEN NaN ELSE CHOOSE m \in nums : \A x \in nums : FLe(m, x)
DetectBySmallestWeight(weights_series) ==
    FLe(MinOf({ToNumeric(weights_series[i]) : i \in 1..Len(weights_series)} \ {NaN}), One)

\* lines 147-156
detect_weight_scale(weights_series) == FLe(SeriesMax(weights_series), One)

\* calc_df["Vikt(%)"]
ViktColumn == [i \in 1..Len(calc_df) |-> calc_df[i].Vikt]

\* lines 180-182, w being float(weight)
ScaleWeight(w, weights_are_fractions) ==
    IF w = Raise THEN Raise
    ELSE IF ~weights_are_fractions THEN FDiv(w, Hundred) ELSE w

\* lines 176-182: the weight of a rule row, or Raise when float() fails
RowWeight(row, weights_are_fractions) ==
    IF isna(row.Vikt) THEN Zero ELSE ScaleWeight(PyFloat(row.Vikt), weights_are_fractions)

\* line 185
RowKey(param, row) == <<param, PyStr(row.Delparameter)>>

\* normalize_value with the references of a rule row
NormalizeRow(raw, row) == normalize_value(raw, row.Logik, row.MaxRef, row.Optimalt)

\* lines 186-197, f being float(row["Normaliserat värde"]): the answer is
\* normalized when there is one that is no text ("answered"); else f is taken
\* when it is a float; else the row's own raw value is normalized
RowLookup(key, row, store, answered, f) ==
    IF ~answered /\ f # Raise THEN f
    ELSE NormalizeRow(IF answered THEN store[key].value ELSE row.Ravarde, row)

Answered(key, store) == key \in DOMAIN store /\ store[key].type # "text"

\* lines 199-200
NoneToZero(normalized) == IF normalized = None THEN Zero ELSE normalized

\* lines 185-200: the contribution of a rule row, or Raise
RowNormalized(key, row, store) ==
    NoneToZero(RowLookup(key, row, store, Answered(key, store), PyFloat(row.Normaliserat)))

\* the rows of a group: sub = the rows whose Parameter is param
InGroup(param, row) == isstr(row.Parameter) /\ row.Parameter.s = param

\* line 202 with = in place of +=
AccumulateOverwrites(acc, weight, normalized) == FMul(weight, normalized)

\* line 202: total_score += weight * normalized
Accumulate(acc, weight, normalized) == FAdd(acc, FMul(weight, normalized))

\* lines 169-202: the loop over the rows of a group from row i on, acc being
\* total_score so far, weights[i] and contribs[i] the values of weight and
\* normalized for row i; Raise when a row raises
RECURSIVE GroupLoop(_, _, _, _, _)
GroupLoop(param, weights, contribs, i, acc) ==
    IF i > Len(calc_df) THEN acc
    ELSE IF ~InGroup(param, calc_df[i]) THEN GroupLoop(param, weights, contribs, i + 1, acc)
    ELSE IF weights[i] = Raise \/ contribs[i] = Raise THEN Raise
    ELSE GroupLoop(param, weights, contribs, i + 1, Accumulate(acc, weights[i], contribs[i]))

\* a set of texts as a sequence in ascending order
Least(S) == CHOOSE x \in S : \A y \in S \ {x} : StrLess(x, y)
RECURSIVE SortTexts(_)
SortTexts(S) == IF S = {} THEN <<>> ELSE <<Least(S)>> \o SortTexts(S \ {Least(S)})

\* line 168: the keys of calc_df.groupby("Parameter"): the distinct
\* parameters, empty cells dropped, in sorted order (groupby's defaults
\* sort=True, dropna=True)
GroupKeys ==
    SortTexts({calc_df[i].Parameter.s : i \in {j \in 1..Len(calc_df) : isstr(calc_df[j].Parameter)}})

\* lines 204-206. The result holds the returned mapping as the sequence
\* "items" of its entries in insertion order; "weights" and "contribs" record
\* the values the local variables weight and normalized took for each row
\* (None for a row of no group). A run that raises returns nothing.
ScoresResult(keys, weights, contribs, sums) ==
    IF \E g \in 1..Len(keys) : sums[g] = Raise
    THEN [computed |-> TRUE, raised |-> TRUE, items |-> <<>>, weights |-> <<>>,
          contribs |-> <<>>]
    ELSE [computed |-> TRUE, raised |-> FALSE,
          items |-> [g \in 1..Len(keys) |-> [param |-> keys[g], score |-> Round3(sums[g])]],
          weights |-> weights, contribs |-> contribs]

\* lines 168-204: the loop over the groups
ScoreGroups(keys, weights, contribs) ==
    ScoresResult(keys, weights, contribs,
                 [g \in 1..Len(keys) |-> GroupLoop(keys[g], weights, contribs, 1, Zero)])

\* lines 171-200: weight and normalized of every row of a group
ScoreRows(store, weights_are_fractions, keys) ==
    ScoreGroups(keys,
                [i \in 1..Len(calc_df) |->
                    IF isstr(calc_df[i].Parameter)
                    THEN RowWeight(calc_df[i], weights_are_fractions) ELSE None],
                [i \in 1..Len(calc_df) |->
                    IF isstr(calc_df[i].Parameter)
                    THEN RowNormalized(RowKey(calc_df[i].Parameter.s, calc_df[i]), calc_df[i],
                                       store)
                    ELSE None])

\* lines 158-206
calculate_scores(store) == ScoreRows(store, detect_weight_scale(ViktColumn), GroupKeys)

\* sum(scores.values())
RECURSIVE SumScores(_, _)
SumScores(items, i) ==
    IF i > Len(items) THEN Zero ELSE FAdd(items[i].score, SumScores(items, i + 1))

\* line 380
TotalScore(items) ==
    IF Len(items) > 0 THEN Round3(FDiv(SumScores(items, 1), Num(Len(items), 1))) ELSE Zero

\* lines 208-216; the labels are Bra, Godtagbar, Bristfallig, Dalig
get_label(score) ==
    IF FLe(Num(3, 4), score) THEN "Bra"
    ELSE IF FLe(Num(1, 2), score) THEN "Godtagbar"
    ELSE IF FLe(Num(1, 4), score) THEN "Bristfallig"
    ELSE "Dalig"

\* lines 228-231: the report's lines "- param: score (label)", in the order of
\* scores.items()
export_pdf(items) ==
    [i \in 1..Len(items) |->
        [param |-> items[i].param, score |-> items[i].score, label |-> get_label(items[i].score)]]

-----------------------------------------------------------------------------
(* Values of the variables a specification does not use *)

Pending == [k |-> "pending", n |-> 0, d |-> 1, s |-> <<>>]
NoCall == [raw |-> None, logic |-> None, max_ref |-> None, optimal |-> None]
NoLabel == [enhet |-> None, parameter |-> <<>>, delparam |-> <<>>]
NoSpec == [type |-> "pending"]
EmptyStore == [key \in {} |-> None]
NotComputed ==
    [computed |-> FALSE, raised |-> FALSE, items |-> <<>>, weights |-> <<>>, contribs |-> <<>>]

WizardIdle ==
    /\ indata_df = <<>>
    /\ calc_df = <<>>
    /\ step = 0
    /\ answers = EmptyStore
    /\ scores = NotComputed
    /\ total_score = None
    /\ pdf = <<>>
    /\ shown = {}
    /\ epoch = 0
    /\ lastEvent = "init"
NvIdle == nv_args = NoCall /\ nv_ret = Pending
IiIdle == ii_args = NoLabel /\ ii_ret = NoSpec

-----------------------------------------------------------------------------
(* The wizard: session state and one action per script run *)

\* line 40: the parameters of Indata in the order of their first appearance,
\* empty cells dropped
RECURSIVE UniqueParams(_, _, _)
UniqueParams(df, i, acc) ==
    IF i > Len(df) THEN acc
    ELSE IF isstr(df[i].Parameter) /\ \A j \in 1..Len(acc) : acc[j] # df[i].Parameter.s
         THEN UniqueParams(df, i + 1, Append(acc, df[i].Parameter.s))
         ELSE UniqueParams(df, i + 1, acc)
parameters == UniqueParams(indata_df, 1, <<>>)

\* int(x) of a number: truncation towards zero
PyInt(x) == IF x.n >= 0 THEN x.n \div x.d ELSE -((-x.n) \div x.d)

\* line 290
EnhetText(r) == IF ~isna(r.Enhet) THEN PyStr(r.Enhet) ELSE <<>>

\* line 294
RowSpec(current_param, r) ==
    infer_input_type(Str(EnhetText(r)), current_param, PyStr(r.Delparameter))

\* The widget of a row raises, and the script run stops: a radio without
\* options (line 311), a slider or number input whose start value is outside
\* its range (lines 320-321, 352-358)
WidgetRaises(r, spec) ==
    CASE spec.type = "radio" -> Len(spec.options) = 0
      [] spec.type = "slider" ->
            IsNum(r.Ravarde) /\ (PyInt(r.Ravarde) < spec.min \/ PyInt(r.Ravarde) > spec.max)
      [] spec.type = "number" ->
            IsNum(r.Ravarde)
                /\ (FLt(r.Ravarde, Num(spec.min, 1))
                    \/ ("max" \in DOMAIN spec /\ FLt(Num(spec.max, 1), r.Ravarde)))
      [] OTHER -> FALSE

\* the texts a user types into a text area
TextChoices == {Str(<<>>), Str(<<" ", "o", "k">>)}

\* the values a widget can return (number inputs up to MaxVal)
Admissible(spec) ==
    CASE spec.type = "text" -> TextChoices
      [] spec.type = "radio" -> {Num(spec.options[i], 1) : i \in 1..Len(spec.options)}
      [] spec.type = "slider" -> {Num(v, 1) : v \in spec.min..spec.max}
      [] spec.type = "select" -> {Num(spec.options[i][2], 1) : i \in 1..Len(spec.options)}
      [] OTHER -> {Num(v, 1) : v \in spec.min..(IF "max" \in DOMAIN spec /\ spec.max < MaxVal
                                                THEN spec.max ELSE MaxVal)}

\* lines 299-363: the entry a row stores for the widget value val; "rec" is
\* history: the value of epoch when the entry was stored
RowAnswer(r, spec, val) ==
    CASE spec.type = "text" ->
            [type |-> "text", value |-> None, text |-> Strip(val.s), enhet |-> EnhetText(r),
             rec |-> epoch]
      [] spec.type \in {"radio", "slider"} ->
            [type |-> "scale", value |-> val, text |-> <<>>, enhet |-> EnhetText(r),
             rec |-> epoch]
      [] OTHER ->
            [type |-> "number", value |-> val, text |-> <<>>, enhet |-> EnhetText(r),
             rec |-> epoch]

\* store[key] = entry
Put(store, key, entry) ==
    [x \in DOMAIN store \cup {key} |-> IF x = key THEN entry ELSE store[x]]

\* lines 294-363: the row's widget and the entry it stores; the run stops at
\* a widget that raises
RECURSIVE RenderRows(_, _, _, _)
RenderRow(current_param, vals, i, store, r, spec) ==
    IF WidgetRaises(r, spec) THEN [store |-> store, raised |-> TRUE]
    ELSE RenderRows(current_param, vals, i + 1,
                    Put(store, <<current_param, PyStr(r.Delparameter)>>,
                        RowAnswer(r, spec, vals[i])))

\* lines 286-365: the loop over the rows of the current parameter from row i
\* on, vals[i] being the value of row i's widget
RenderRows(current_param, vals, i, store) ==
    IF i > Len(indata_df) THEN [store |-> store, raised |-> FALSE]
    ELSE IF ~InGroup(current_param, indata_df[i])
         THEN RenderRows(current_param, vals, i + 1, store)
    ELSE RenderRow(current_param, vals, i, store, indata_df[i],
                   RowSpec(current_param, indata_df[i]))

PageRows(current_param) == {i \in 1..Len(indata_df) : InGroup(current_param, indata_df[i])}

\* every choice of widget values for a page: specs[i] is the control of row i
ChoicesOf(idx, specs) ==
    {v \in [idx -> UNION {Admissible(specs[i]) : i \in idx}] :
        \A i \in idx : v[i] \in Admissible(specs[i])}
WidgetValues(current_param) ==
    ChoicesOf({i \in PageRows(current_param) :
                  ~WidgetRaises(indata_df[i], RowSpec(current_param, indata_df[i]))},
              [i \in PageRows(current_param) |-> RowSpec(current_param, indata_df[i])])

OnQuestionStep == 1 <= step /\ step <= Len(parameters)

\* lines 281-365: the question page of the current step
RenderPage(vals) == RenderRows(parameters[step], vals, 1, answers)

NoResults == scores' = NotComputed /\ total_score' = None /\ pdf' = <<>>

\* lines 275-279
StartaEnkaten ==
    /\ step = 0
    /\ step' = 1
    /\ lastEvent' = "Starta enkaten"
    /\ NoResults
    /\ UNCHANGED <<indata_df, calc_df, answers, shown, epoch, nvVars, iiVars>>

\* the effect of a page run on the store
PageStored(page) ==
    /\ answers' = page.store
    /\ shown' = IF page.raised THEN shown ELSE shown \cup {step}

\* lines 281-365: a run of a question page with no button of the page clicked
\* (a widget changed, or the run raised before the buttons)
QuestionRerun ==
    /\ OnQuestionStep
    /\ \E vals \in WidgetValues(parameters[step]) : PageStored(RenderPage(vals))
    /\ lastEvent' = "rerun"
    /\ NoResults
    /\ UNCHANGED <<indata_df, calc_df, step, epoch, nvVars, iiVars>>

\* the buttons of a page are reached only when no widget raised
PageCompleted(page) == ~page.raised /\ PageStored(page)

\* lines 370-371
Nasta ==
    /\ OnQuestionStep
    /\ \E vals \in WidgetValues(parameters[step]) : PageCompleted(RenderPage(vals))
    /\ step' = step + 1
    /\ lastEvent' = "Nasta"
    /\ NoResults
    /\ UNCHANGED <<indata_df, calc_df, epoch, nvVars, iiVars>>

\* lines 373-375 without the test of line 374
TillbakaUnguarded ==
    /\ OnQuestionStep
    /\ \E vals \in WidgetValues(parameters[step]) : PageCompleted(RenderPage(vals))
    /\ step' = step - 1
    /\ lastEvent' = "Tillbaka"
    /\ NoResults
    /\ UNCHANGED <<indata_df, calc_df, epoch, nvVars, iiVars>>

\* lines 373-375
Tillbaka ==
    /\ OnQuestionStep
    /\ \E vals \in WidgetValues(parameters[step]) : PageCompleted(RenderPage(vals))
    /\ step' = IF step > 1 THEN step - 1 ELSE step
    /\ lastEvent' = "Tillbaka"
    /\ NoResults
    /\ UNCHANGED <<indata_df, calc_df, epoch, nvVars, iiVars>>

OnResults == step # 0 /\ ~OnQuestionStep

\* lines 379-380
ComputeResults ==
    /\ scores' = calculate_scores(answers)
    /\ total_score' = IF scores'.raised THEN None ELSE TotalScore(scores'.items)

\* lines 377-421: a run of the results page with no button clicked
Resultat ==
    /\ OnResults
    /\ ComputeResults
    /\ pdf' = <<>>
    /\ lastEvent' = "rerun"
    /\ UNCHANGED <<indata_df, calc_df, step, answers, shown, epoch, nvVars, iiVars>>

\* lines 423-429
ExporteraPDF ==
    /\ OnResults
    /\ ComputeResults
    /\ ~scores'.raised
    /\ pdf' = export_pdf(scores'.items)
    /\ lastEvent' = "Exportera som PDF"
    /\ UNCHANGED <<indata_df, calc_df, step, answers, shown, epoch, nvVars, iiVars>>

\* lines 431-434 without line 433
StartaOmKeepsAnswers ==
    /\ OnResults
    /\ ~calculate_scores(answers).raised
    /\ epoch < MaxResets
    /\ step' = 0
    /\ NoResults
    /\ shown' = {}
    /\ epoch' = epoch + 1
    /\ lastEvent' = "Starta om"
    /\ UNCHANGED <<indata_df, calc_df, answers, nvVars, iiVars>>

\* lines 431-434, and the run of step 0 that st.rerun() starts
StartaOm ==
    /\ OnResults
    /\ ~calculate_scores(answers).raised
    /\ epoch < MaxResets
    /\ step' = 0
    /\ answers' = EmptyStore
    /\ NoResults
    /\ shown' = {}
    /\ epoch' = epoch + 1
    /\ lastEvent' = "Starta om"
    /\ UNCHANGED <<indata_df, calc_df, nvVars, iiVars>>

-----------------------------------------------------------------------------
(* Calls of normalize_value on bounded inputs *)

RawInputs ==
    {Num(k, 2) : k \in (-2)..(2 * MaxVal + 2)}
        \cup {NaN, None, Str(<<"a", "b", "c">>), Str(<<" ", "2", " ">>), Str(<<"1", ".", "5">>)}
MaxRefInputs ==
    {Num(k, 1) : k \in (-1)..MaxVal} \cup {NaN, None, Str(<<"x">>), Str(<<"2">>)}
OptimalInputs ==
    {Num(k, 1) : k \in 0..MaxVal} \cup {NaN, None, Str(<<"x">>), Str(<<"1">>)}
LogicInputs ==
    {Str(sMax), Str(sMin), Str(sOpt), Str(<<"O", "p", "t">>), Str(<<" ", "M", "I", "N", " ">>),
     Str(<<" ", "o", "p", "t">>), Str(<<"a", "v", "g">>), Str(<<>>), NaN}

InitNormalize ==
    /\ WizardIdle
    /\ IiIdle
    /\ nv_args \in [raw : RawInputs, logic : LogicInputs, max_ref : MaxRefInputs,
                    optimal : OptimalInputs]
    /\ nv_ret = Pending

NormalizeCall ==
    /\ nv_ret = Pending
    /\ nv_ret' = normalize_value(nv_args.raw, nv_args.logic, nv_args.max_ref, nv_args.optimal)
    /\ UNCHANGED <<nv_args, wizardVars, iiVars>>

NextNormalize == NormalizeCall

SpecNormalize == InitNormalize /\ [][NextNormalize]_vars

-----------------------------------------------------------------------------
(* Calls of infer_input_type on bounded unit labels *)

pKollektivtrafik ==
    <<"K", "o", "l", "l", "e", "k", "t", "i", "v", "t", "r", "a", "f", "i", "k">>
dTrafiktyp == <<"T", "r", "a", "f", "i", "k", "t", "y", "p">>
pTrygghet == <<"T", "r", "y", "g", "g", "h", "e", "t">>
dBelysning == <<"B", "e", "l", "y", "s", "n", "i", "n", "g">>
pBuller == <<"B", "u", "l", "l", "e", "r">>
dNiva == <<"N", "i", "v", "a">>

ScaleBounds == 0..MaxScale \cup {10}
ScaleLabels ==
    {w \o g \o IntToStr(lo) \o g \o sep \o g \o IntToStr(hi) \o suf :
        w \in {<<"S", "k", "a", "l", "a">>, <<"B", "e", "t", "y", "g", " ">> \o sSkala},
        g \in {<<>>, <<" ">>},
        lo \in ScaleBounds, hi \in ScaleBounds,
        sep \in {<<"-">>, <<"u2013">>, <<"/">>},
        suf \in {<<>>, <<" ", "(", "f", "r", "i", "t", "e", "x", "t", ")">>}}
OtherLabels ==
    {<<"F", "r", "i", "t", "e", "x", "t">>, <<"t", "e", "x", "t">>, <<"T", "e", "x", "t", "e", "r">>,
     <<"K", "o", "m", "m", "e", "n", "t", "a", "r">>, <<"K", "a", "t", "e", "g", "o", "r", "i">>,
     <<"P", "r", "o", "c", "e", "n", "t">>, <<"m", "e", "t", "e", "r">>,
     <<"P", "o", "u00e4", "n", "g">>, <<"k", "m", "/", "h">>, <<"d", "B">>, <<>>}
UnitLabels == {Str(l) : l \in ScaleLabels \cup OtherLabels} \cup {NaN}

InitClassify ==
    /\ WizardIdle
    /\ NvIdle
    /\ ii_args \in {[enhet |-> e, parameter |-> pd[1], delparam |-> pd[2]] :
                        e \in UnitLabels,
                        pd \in {<<pKollektivtrafik, dTrafiktyp>>, <<pTrygghet, dBelysning>>}}
    /\ ii_ret = NoSpec

ClassifyCall ==
    /\ ii_ret = NoSpec
    /\ ii_ret' = infer_input_type(ii_args.enhet, ii_args.parameter, ii_args.delparam)
    /\ UNCHANGED <<ii_args, wizardVars, nvVars>>

NextClassify == ClassifyCall

SpecClassify == InitClassify /\ [][NextClassify]_vars

-----------------------------------------------------------------------------
(* Rule tables and calls of calculate_scores on bounded tables and stores *)

Rule(p, d, raw, vikt, maxref, opt, logik, norm) ==
    [Parameter |-> p, Delparameter |-> d, Ravarde |-> raw, Vikt |-> vikt, MaxRef |-> maxref,
     Optimalt |-> opt, Logik |-> logik, Normaliserat |-> norm]

Ten == Num(10, 1)
sNA == Str(<<"n", "/", "a">>)

RuleRows ==
    { \* fractions 0.4 and 0.6 of one parameter
      Rule(Str(pTrygghet), Str(dBelysning), Num(8, 1), Num(2, 5), Ten, NaN, Str(sMax), Num(1, 2)),
      Rule(Str(pTrygghet), Str(dNiva), Num(6, 1), Num(3, 5), Ten, Num(5, 1), Str(sOpt), Num(1, 2)),
      \* percentages; the precomputed value is text
      Rule(Str(pBuller), Str(dBelysning), Num(8, 1), Num(40, 1), Ten, NaN, Str(sMax), sNA),
      Rule(Str(pBuller), Str(dNiva), Num(3, 1), Num(60, 1), Num(0, 1), NaN, Str(sMin), sNA),
      \* a precomputed value above 1
      Rule(Str(pBuller), Str(dBelysning), Num(8, 1), Num(3, 5), Ten, NaN, Str(sMax), Num(3, 2)),
      \* empty weight, raw value and precomputed value
      Rule(Str(pTrygghet), Str(dBelysning), NaN, NaN, Ten, NaN, Str(sMax), NaN),
      \* a weight that is no number, and one that is a number as text
      Rule(Str(pTrygghet), Str(dNiva), Num(6, 1), Str(<<"x">>), Ten, NaN, Str(sMax), Num(1, 2)),
      Rule(Str(pBuller), Str(dNiva), Num(6, 1), Str(<<"5", "0">>), Ten, NaN, Str(sMax), Num(1, 4)),
      \* a row without a parameter
      Rule(NaN, Str(dBelysning), Num(8, 1), Num(50, 1), Ten, NaN, Str(sMax), Num(1, 2)),
      \* opt without a reference value
      Rule(Str(pBuller), Str(dNiva), Num(6, 1), Num(1, 1), NaN, Num(5, 1), Str(sOpt), None),
      \* empty logic and reference value
      Rule(Str(pTrygghet), Str(dBelysning), Num(8, 1), Num(1, 2), NaN, NaN, NaN, sNA) }

\* every table of at most n rule rows
Tables(n) == UNION {[1..m -> RuleRows] : m \in 0..n}

\* the keys of the rows of a table that belong to a group
TableKeys(tb) ==
    {RowKey(tb[i].Parameter.s, tb[i]) : i \in {j \in 1..Len(tb) : isstr(tb[j].Parameter)}}

StoreEntries ==
    {[type |-> "text", value |-> None, text |-> <<"o", "k">>, enhet |-> <<>>, rec |-> 0],
     [type |-> "number", value |-> Ten, text |-> <<>>, enhet |-> <<>>, rec |-> 0]}

\* every answer store over some of the keys of a table
Stores(tb) == UNION {[ks -> StoreEntries] : ks \in SUBSET TableKeys(tb)}

InitScores ==
    /\ NvIdle
    /\ IiIdle
    /\ indata_df = <<>>
    /\ calc_df \in Tables(MaxRows)
    /\ answers \in Stores(calc_df)
    /\ step = 1
    /\ scores = NotComputed
    /\ total_score = None
    /\ pdf = <<>>
    /\ shown = {}
    /\ epoch = 0
    /\ lastEvent = "init"

\* a call of calculate_scores and of the total score (lines 379-380)
ScoreCall ==
    /\ ~scores.computed
    /\ ComputeResults
    /\ pdf' = IF scores'.raised THEN <<>> ELSE export_pdf(scores'.items)
    /\ UNCHANGED <<indata_df, calc_df, step, answers, shown, epoch, lastEvent, nvVars, iiVars>>

NextScores == ScoreCall

SpecScores == InitScores /\ [][NextScores]_vars

-----------------------------------------------------------------------------
(* The wizard on bounded workbooks *)

Indata(p, d, raw, enhet) ==
    [Parameter |-> p, Delparameter |-> d, Ravarde |-> raw, Enhet |-> enhet, Kommentar |-> NaN]

eSkala13 == Str(<<"S", "k", "a", "l", "a", " ", "1", "-", "3">>)
eSkala06 == Str(<<"S", "k", "a", "l", "a", " ", "0", "u2013", "6">>)
eSkala51 == Str(<<"S", "k", "a", "l", "a", " ", "5", "-", "1">>)
eFritext == Str(<<"F", "r", "i", "t", "e", "x", "t">>)
eKategori == Str(<<"K", "a", "t", "e", "g", "o", "r", "i">>)
eProcent == Str(<<"P", "r", "o", "c", "e", "n", "t">>)

IndataTables ==
    { <<>>,
      <<Indata(Str(pTrygghet), Str(dBelysning), Num(2, 1), eSkala13),
        Indata(Str(pTrygghet), Str(dNiva), NaN, eFritext),
        Indata(Str(pBuller), Str(dNiva), Num(1, 1), NaN)>>,
      <<Indata(Str(pBuller), Str(dBelysning), NaN, eSkala06),
        Indata(NaN, Str(dNiva), Num(1, 1), eProcent),
        Indata(Str(pKollektivtrafik), Str(dTrafiktyp), Num(2, 1), eKategori),
        Indata(Str(pBuller), Str(dNiva), Num(1, 1), eProcent)>>,
      <<Indata(Str(pTrygghet), Str(dBelysning), Num(2, 1), eSkala13),
        Indata(Str(pBuller), Str(dNiva), Num(3, 1), eSkala51)>>,
      <<Indata(Str(pBuller), Str(dNiva), NaN, eFritext),
        Indata(Str(pBuller), Str(dBelysning), Num(9, 1), eSkala06)>> }

CalcTables ==
    { <<Rule(Str(pTrygghet), Str(dBelysning), Num(2, 1), Num(2, 5), Num(3, 1), NaN, Str(sMax),
             Num(1, 2)),
        Rule(Str(pTrygghet), Str(dNiva), Num(6, 1), Num(3, 5), Ten, Num(5, 1), Str(sOpt),
             Num(1, 2)),
        Rule(Str(pBuller), Str(dNiva), Num(1, 1), Num(1, 1), Num(MaxVal, 1), NaN, Str(sMin), NaN)>>,
      <<Rule(Str(pBuller), Str(dBelysning), Num(3, 1), Num(50, 1), Num(6, 1), NaN, Str(sMax), sNA),
        Rule(Str(pBuller), Str(dNiva), Num(1, 1), Num(50, 1), Num(MaxVal, 1), NaN, Str(sMin), sNA),
        Rule(Str(pKollektivtrafik), Str(dTrafiktyp), Num(2, 1), Num(100, 1), Num(3, 1), NaN,
             Str(sMax), Num(2, 3))>> }

\* lines 265-268
Init ==
    /\ NvIdle
    /\ IiIdle
    /\ indata_df \in IndataTables
    /\ calc_df \in CalcTables
    /\ step = 0
    /\ answers = EmptyStore
    /\ scores = NotComputed
    /\ total_score = None
    /\ pdf = <<>>
    /\ shown = {}
    /\ epoch = 0
    /\ lastEvent = "init"

Next ==
    \/ StartaEnkaten
    \/ QuestionRerun
    \/ Nasta
    \/ Tillbaka
    \/ Resultat
    \/ ExporteraPDF
    \/ StartaOm

Spec == Init /\ [][Next]_vars

-----------------------------------------------------------------------------
(* Properties of normalize_value, under SpecNormalize *)

Returned == nv_ret # Pending
\* the arguments as the function reads them
ArgRaw == PyFloat(nv_args.raw)
ArgLogic == Strip(Lower(PyStr(nv_args.logic)))
ArgMaxRef == CoerceText(nv_args.max_ref)
ArgOptimal == CoerceText(nv_args.optimal)

\* the cases in which no value can be computed
NotComputable ==
    \/ ArgRaw = Raise
    \/ /\ isstr(nv_args.logic)
       /\ \/ ArgLogic \in {sMax, sMin} /\ (isna(nv_args.max_ref) \/ FEq(ArgMaxRef, Zero))
          \/ ArgLogic = sOpt
                /\ (isna(nv_args.optimal) \/ isna(nv_args.max_ref) \/ FEq(ArgMaxRef, ArgOptimal))
          \/ ArgLogic \notin {sMax, sMin, sOpt}

\* C2: normalize_value returns None whenever raw is no number, max_ref is 0 or
\* missing for max/min, optimal or max_ref is missing or max_ref = optimal for
\* opt, or logic is another string
C2_NotComputableIsNone == (Returned /\ NotComputable) => nv_ret = None

\* numeric raw, logic max/min/opt, numeric references, non-zero denominator
Computable ==
    /\ IsNum(ArgRaw)
    /\ isstr(nv_args.logic)
    /\ IsNum(ArgMaxRef)
    /\ \/ ArgLogic \in {sMax, sMin} /\ ~FEq(ArgMaxRef, Zero)
       \/ ArgLogic = sOpt /\ IsNum(ArgOptimal) /\ ~FEq(ArgMaxRef, ArgOptimal)

\* the formula of the logic, before saturation
Formula ==
    IF ArgLogic = sMax THEN FDiv(ArgRaw, ArgMaxRef)
    ELSE IF ArgLogic = sMin THEN FSub(One, FDiv(ArgRaw, ArgMaxRef))
    ELSE FSub(One, FDiv(FAbs(FSub(ArgRaw, ArgOptimal)), FSub(ArgMaxRef, ArgOptimal)))
Saturated(x) == IF FLt(x, Zero) THEN Zero ELSE IF FLt(One, x) THEN One ELSE x

\* C3: a computable call returns its logic's formula saturated to [0,1]; the
\* result is in [0,1]; normalize(max_ref, max, max_ref) = 1,
\* normalize(0, max, max_ref > 0) = 0, normalize(optimal, opt, max_ref, optimal) = 1
C3_FormulaSaturated ==
    (Returned /\ Computable) =>
        /\ nv_ret = Saturated(Formula)
        /\ FLe(Zero, nv_ret) /\ FLe(nv_ret, One)
        /\ (ArgLogic = sMax /\ FEq(ArgRaw, ArgMaxRef)) => nv_ret = One
        /\ (ArgLogic = sMax /\ FEq(ArgRaw, Zero) /\ FLt(Zero, ArgMaxRef)) => nv_ret = Zero
        /\ (ArgLogic = sOpt /\ FEq(ArgRaw, ArgOptimal)) => nv_ret = One

\* a computable call whose formula is above 1 has returned 1
C3_Witness == Returned /\ Computable /\ FLt(One, Formula) /\ nv_ret = One

-----------------------------------------------------------------------------
(* Properties of infer_input_type, under SpecClassify *)

Classified == ii_ret # NoSpec
LabelText == Strip(Lower(PyStr(ii_args.enhet)))
\* the label matches the scale pattern and carries no free-text marker
ScaleLabel ==
    /\ isstr(ii_args.enhet)
    /\ parse_scale(ii_args.enhet) # <<>>
    /\ ~(Contains(LabelText, sFritext) \/ LabelText = sText \/ LabelText = sKommentar)
LabelLo == parse_scale(ii_args.enhet)[1]
LabelHi == parse_scale(ii_args.enhet)[2]
\* the values the returned control admits
ControlValues ==
    IF ii_ret.type = "radio" THEN {ii_ret.options[i] : i \in 1..Len(ii_ret.options)}
    ELSE IF ii_ret.type = "slider" THEN ii_ret.min..ii_ret.max
    ELSE {}

\* C8: a scale label gives a control that admits exactly lo..hi, a radio when
\* hi - lo <= 5 and else a slider with step 1, and lo..hi is not empty
C8_ScaleRange ==
    (Classified /\ ScaleLabel) =>
        /\ ii_ret.type = (IF LabelHi - LabelLo <= 5 THEN "radio" ELSE "slider")
        /\ ii_ret.type = "slider" => ii_ret.step = 1
        /\ ControlValues = LabelLo..LabelHi
        /\ ControlValues # {}

-----------------------------------------------------------------------------
(* Properties of calculate_scores and the total score, under SpecScores *)

Scored == scores.computed /\ ~scores.raised
InUnit(x) == FLe(Zero, x) /\ FLe(x, One)
Rows == 1..Len(calc_df)
GroupRows == {i \in Rows : isstr(calc_df[i].Parameter)}
KeyOfRow(i) == RowKey(calc_df[i].Parameter.s, calc_df[i])

\* C1: every parameter score and the total score lie in [0,1]
C1_ScoresInUnit ==
    Scored =>
        /\ \A g \in 1..Len(scores.items) : InUnit(scores.items[g].score)
        /\ InUnit(total_score)

FirstRow(param) == CHOOSE i \in Rows : InGroup(param, calc_df[i]) /\ \A j \in 1..(i - 1) : ~InGroup(param, calc_df[j])

\* C4: the scores, and the report lines built from them, are in the order in
\* which the parameters first appear in the rule table
C4_AppearanceOrder ==
    Scored =>
        /\ \A g, h \in 1..Len(scores.items) :
              g < h => FirstRow(scores.items[g].param) < FirstRow(scores.items[h].param)
        /\ \A g \in 1..Len(pdf) : pdf[g].param = scores.items[g].param

Unanswered(i) == ~(KeyOfRow(i) \in DOMAIN answers /\ answers[KeyOfRow(i)].type # "text")
Precomputed(i) == PyFloat(calc_df[i].Normaliserat)
OwnRaw(i) ==
    normalize_value(calc_df[i].Ravarde, calc_df[i].Logik, calc_df[i].MaxRef, calc_df[i].Optimalt)

\* C5: without a usable answer the contribution is the precomputed value when
\* that is a number, else normalize_value of the row's raw value, else 0.0; it
\* is always a number
C5_Fallback ==
    Scored =>
        \A i \in GroupRows :
            Unanswered(i) =>
                /\ IsNum(scores.contribs[i])
                /\ scores.contribs[i] =
                      (IF IsNum(Precomputed(i)) THEN Precomputed(i)
                       ELSE IF IsNum(OwnRaw(i)) THEN OwnRaw(i) ELSE Zero)

NumericWeight(i) == IsNum(ToNumeric(calc_df[i].Vikt))
\* no numeric weight of the table is above 1
AllFractions == \A j \in Rows : NumericWeight(j) => FLe(ToNumeric(calc_df[j].Vikt), One)

\* C6: every numeric weight is used unchanged when the largest numeric weight
\* of the table is <= 1, and divided by 100 otherwise; entries that are no
\* number take no part in the decision
C6_OneScale ==
    Scored =>
        \A i \in GroupRows :
            NumericWeight(i) =>
                scores.weights[i] =
                    (IF AllFractions THEN ToNumeric(calc_df[i].Vikt)
                     ELSE FDiv(ToNumeric(calc_df[i].Vikt), Hundred))

\* a table with a weight of 40 and an entry that is no number has been scored
\* in percentages: the weight used is 0.4
C6_Witness ==
    /\ Scored
    /\ \E i \in GroupRows : calc_df[i].Vikt = Num(40, 1) /\ scores.weights[i] = Num(2, 5)
    /\ \E i \in Rows : ~NumericWeight(i)

RECURSIVE WeightedSum(_)
WeightedSum(S) ==
    IF S = {} THEN Zero
    ELSE LET i == CHOOSE x \in S : TRUE
         IN  FAdd(FMul(scores.weights[i], scores.contribs[i]), WeightedSum(S \ {i}))
RECURSIVE ScoreSum(_)
ScoreSum(S) ==
    IF S = {} THEN Zero
    ELSE LET g == CHOOSE x \in S : TRUE IN FAdd(scores.items[g].score, ScoreSum(S \ {g}))
\* y is x rounded to 3 decimals: a multiple of 1/1000 at most 1/2000 from x
\* (NaN for NaN)
RoundedTo3(x, y) ==
    IF IsNum(x)
    THEN IsNum(y) /\ 1000 % y.d = 0 /\ FLe(FAbs(FSub(x, y)), Num(1, 2000))
    ELSE y = NaN

\* C7: a parameter's score is the sum of weight x contribution over its rules
\* rounded to 3 decimals; the total is the mean of the scores rounded to 3
\* decimals, and 0.0 without parameters
C7_WeightedSum ==
    Scored =>
        /\ \A g \in 1..Len(scores.items) :
              RoundedTo3(WeightedSum({i \in Rows : InGroup(scores.items[g].param, calc_df[i])}),
                         scores.items[g].score)
        /\ IF Len(scores.items) = 0 THEN total_score = Zero
           ELSE RoundedTo3(FDiv(ScoreSum(1..Len(scores.items)), Num(Len(scores.items), 1)),
                           total_score)

\* weights 0.4 and 0.6 with contributions 1.0 and 0.5 have given 0.700
C7_Witness ==
    /\ Scored
    /\ Len(calc_df) = 2
    /\ scores.weights = <<Num(2, 5), Num(3, 5)>>
    /\ scores.contribs = <<One, Num(1, 2)>>
    /\ Len(scores.items) = 1
    /\ scores.items[1].score = Num(7, 10)
    /\ total_score = Num(7, 10)

-----------------------------------------------------------------------------
(* Properties of the wizard, under Spec *)

Reset == lastEvent' = "Starta om" /\ step' = 0 /\ answers' = EmptyStore

\* C9: the store is empty at step 0; a step other than a reset removes no
\* entry, and the store changes only on question steps; a scoring pass sees
\* only entries stored since the last reset
C9_StoreLifecycle ==
    /\ [](step = 0 => answers = EmptyStore)
    /\ [](scores.computed => \A key \in DOMAIN answers : answers[key].rec = epoch)
    /\ [][lastEvent' = "Starta om" => Reset]_vars
    /\ [][Reset \/ (DOMAIN answers \subseteq DOMAIN answers')]_vars
    /\ [][answers' # answers => (Reset \/ OnQuestionStep)]_vars

\* scores have been computed from a store filled after a reset
C9_Witness == epoch > 0 /\ scores.computed /\ answers # EmptyStore

IndataKeys ==
    {<<indata_df[i].Parameter.s, PyStr(indata_df[i].Delparameter)>> :
        i \in {j \in 1..Len(indata_df) : isstr(indata_df[j].Parameter)}}

====
